---------------------------- MODULE Spec2Model ----------------------------
(***************************************************************************)
(* A model of package argv of cmdkit: Parse and the recursive parseArgs.   *)
(*                                                                         *)
(* A Go string is modelled as the sequence of its characters, each         *)
(* character a one-character TLA+ string; the empty string is << >>.       *)
(* Slice indices keep Go's numbering (the first element is index 0), so    *)
(* Go's args[i] is At(args, i).                                            *)
(*                                                                         *)
(* parseArgs is run one loop iteration at a time on an explicit call       *)
(* stack: every recursive call pushes a frame, every return pops one.      *)
(***************************************************************************)
EXTENDS Integers, Sequences, FiniteSets, TLC

VARIABLES input, pc, stack, ret, result

\* The caller of Parse, package cmdkit: the registered commands, the line
\* Run is at, its carg, the signal channel, the goroutine of the selected
\* command, and whether the root context is cancelled.
VARIABLES commands, run, carg, ch, cmd, cancelled

parser == <<input, pc, stack, ret, result>>

caller == <<commands, run, carg, ch, cmd, cancelled>>

vars == <<input, pc, stack, ret, result,
          commands, run, carg, ch, cmd, cancelled>>

-----------------------------------------------------------------------------
(* Package strings, on character sequences.                                *)

Chars(s) == [n \in 1..Len(s) |-> SubSeq(s, n, n)]

At(s, n) == s[n + 1]

From(s, n) == SubSeq(s, n + 1, Len(s))

UpTo(s, n) == SubSeq(s, 1, n)

WhiteSpace == {" ", "\t", "\n", "\r", "\f"}

HasPrefix(s, prefix) ==
    /\ Len(s) >= Len(prefix)
    /\ SubSeq(s, 1, Len(prefix)) = prefix

HasSuffix(s, suffix) ==
    /\ Len(s) >= Len(suffix)
    /\ SubSeq(s, Len(s) - Len(suffix) + 1, Len(s)) = suffix

RECURSIVE TrimLeft(_, _)
TrimLeft(s, cutset) ==
    IF s # << >> /\ Head(s) \in cutset
    THEN TrimLeft(Tail(s), cutset)
    ELSE s

RECURSIVE TrimRight(_, _)
TrimRight(s, cutset) ==
    IF s # << >> /\ s[Len(s)] \in cutset
    THEN TrimRight(SubSeq(s, 1, Len(s) - 1), cutset)
    ELSE s

TrimSpace(s) == TrimRight(TrimLeft(s, WhiteSpace), WhiteSpace)

TrimPrefix(s, prefix) ==
    IF HasPrefix(s, prefix) THEN From(s, Len(prefix)) ELSE s

TrimSuffix(s, suffix) ==
    IF HasSuffix(s, suffix) THEN UpTo(s, Len(s) - Len(suffix)) ELSE s

\* The index of the first instance of substr in s, or -1.
Index(s, substr) ==
    LET at == {n \in 0..(Len(s) - Len(substr)) :
                   SubSeq(s, n + 1, n + Len(substr)) = substr}
    IN  IF at = {} THEN -1 ELSE CHOOSE n \in at : \A m \in at : n <= m

\* sep is never empty here.
RECURSIVE Split(_, _)
Split(s, sep) ==
    LET pos == Index(s, sep)
    IN  IF pos = -1
        THEN <<s>>
        ELSE <<UpTo(s, pos)>> \o Split(From(s, pos + Len(sep)), sep)

RECURSIVE Join(_, _)
Join(elems, sep) ==
    IF elems = << >> THEN << >>
    ELSE IF Len(elems) = 1 THEN elems[1]
    ELSE elems[1] \o sep \o Join(Tail(elems), sep)

-----------------------------------------------------------------------------
(* type Argv.  A nil map and an empty map are told apart by PairsNil; a    *)
(* nil *Argv is the empty sequence, a pointer to a node is <<node>>.       *)

NoPairs == << >>

ZeroArgv ==
    [Name |-> << >>, Sub |-> << >>, Text |-> << >>,
     Pairs |-> NoPairs, PairsNil |-> TRUE]

\* Put adding to the values a key already has.
PutAppended(pairs, key, values) ==
    [k \in (DOMAIN pairs) \cup {key} |->
        IF k # key THEN pairs[k]
        ELSE IF key \in DOMAIN pairs THEN pairs[k] \o values
        ELSE values]

Put(pairs, key, values) ==
    [k \in (DOMAIN pairs) \cup {key} |->
        IF k = key THEN values ELSE pairs[k]]

\* New(name): only the Name is set, Pairs is the nil map.
New(name) == [ZeroArgv EXCEPT !.Name = name]

HasKV(a, n) == n \in DOMAIN a.Pairs

ErrNil == "nil"
ErrEmptyInput == "no argument provided"
ErrMisplacedFlags == "flags must come after command name"
ErrMissingFlagValue == "flag has no provided value"

-----------------------------------------------------------------------------
(* The token classifiers.                                                  *)

\* isFlag without the second test of line 197.
isFlagAnyDash(s) == HasPrefix(s, <<"-">>)

isFlag(s) == HasPrefix(s, <<"-">>) /\ TrimLeft(s, {"-"}) # << >>

\* isIgnored without the case of lines 206-207.
isIgnoredButDashes(s) == s \in {<< >>, <<"-">>}

isIgnored(s) == s \in {<< >>, <<"-">>, <<"-", "-">>}

isList(s) == HasPrefix(s, <<"[">>)

isListEnd(s) == HasSuffix(s, <<"]">>)

-----------------------------------------------------------------------------
(* One activation of parseArgs: its argument, its locals, and the line it  *)
(* is at: 56, the head of the loop, or 86 or 181, awaiting the recursive    *)
(* call made there.                                                         *)

NewFrame(args) ==
    [args |-> args, i |-> 0,
     argd |-> [ZeroArgv EXCEPT !.PairsNil = FALSE],
     withCommand |-> FALSE, line |-> 56]

top == Head(stack)

arg == At(top.args, top.i)

AtLoop ==
    /\ pc = "parseArgs"
    /\ stack # << >>
    /\ ret = << >>
    /\ top.line = 56

InLoop == AtLoop /\ top.i < Len(top.args)

\* continue: the loop's i++ and the next iteration.
Continue(f) ==
    /\ stack' = <<[f EXCEPT !.i = f.i + 1]>> \o Tail(stack)
    /\ UNCHANGED <<input, pc, ret, result>>
    /\ UNCHANGED caller

\* return node, err: to the calling parseArgs, or through Parse to the caller.
Return(node, err) ==
    /\ stack' = Tail(stack)
    /\ IF Len(stack) = 1
       THEN /\ pc' = "done"
            /\ ret' = << >>
            /\ result' = <<[node |-> node, err |-> err]>>
       ELSE /\ ret' = <<[node |-> node, err |-> err]>>
            /\ UNCHANGED <<pc, result>>
    /\ UNCHANGED input
    /\ UNCHANGED caller

\* parseArgs(rem), called at the given line of the frame f.
Call(f, rem, line) ==
    /\ stack' = <<NewFrame(rem), [f EXCEPT !.line = line]>> \o Tail(stack)
    /\ UNCHANGED <<input, pc, ret, result>>
    /\ UNCHANGED caller

\* A run-time panic (index out of range) ends the program.
Panic ==
    /\ pc' = "panic"
    /\ UNCHANGED <<input, stack, ret, result>>
    /\ UNCHANGED caller

\* The branch of lines 78-93 and of lines 173-188: rem is args[from:].
Branch(f, from, line) ==
    LET rem == From(f.args, from)
    IN  IF Len(rem) = 1 /\ ~isFlag(At(rem, 0))
        THEN Return([f.argd EXCEPT !.Text = At(rem, 0)], ErrNil)
        ELSE Call(f, rem, line)

-----------------------------------------------------------------------------
(* Flag parsing, lines 96-143.                                              *)

opt(a) == TrimLeft(a, {"-"})

hasEq(a) == Index(opt(a), <<"=">>) # -1

key(a) ==
    IF hasEq(a) THEN TrimSpace(UpTo(opt(a), Index(opt(a), <<"=">>))) ELSE << >>

\* value cut at the last '=' of the token, not at the first.
valueAfterLastEq(a) ==
    IF hasEq(a)
    THEN LET parts == Split(opt(a), <<"=">>)
         IN  TrimSpace(parts[Len(parts)])
    ELSE << >>

\* value without the TrimSpace of line 104.
valueUntrimmed(a) ==
    IF hasEq(a) THEN From(opt(a), Index(opt(a), <<"=">>) + 1) ELSE << >>

value(a) ==
    IF hasEq(a) THEN TrimSpace(From(opt(a), Index(opt(a), <<"=">>) + 1)) ELSE << >>

\* scanList without the isFlag test of line 124.
RECURSIVE scanListThroughFlags(_, _, _)
scanListThroughFlags(args, i, list) ==
    IF /\ i + 1 < Len(args)
       /\ ~isListEnd(At(args, i + 1))
    THEN scanListThroughFlags(args, i + 1,
                              Append(list, TrimSpace(At(args, i + 1))))
    ELSE [i |-> i, list |-> list]

\* The loop of lines 124-127: the cursor after it and the list it built.
RECURSIVE scanList(_, _, _)
scanList(args, i, list) ==
    IF /\ i + 1 < Len(args)
       /\ ~isFlag(At(args, i + 1))
       /\ ~isListEnd(At(args, i + 1))
    THEN scanList(args, i + 1, Append(list, TrimSpace(At(args, i + 1))))
    ELSE [i |-> i, list |-> list]

\* Lines 119-127.
listScan(args, i) ==
    LET before == TrimSpace(TrimLeft(value(At(args, i)), {"["}))
    IN  scanList(args, i, IF before # << >> THEN <<before>> ELSE << >>)

\* Line 129 reads args[i+1] whether or not the loop stopped inside the slice.
listPanics(args, i) ==
    /\ isList(value(At(args, i)))
    /\ ~isListEnd(value(At(args, i)))
    /\ listScan(args, i).i + 1 >= Len(args)

\* Lines 129-133, when line 129 does not panic.
listClose(args, i) ==
    LET s == listScan(args, i)
    IN  IF isListEnd(At(args, s.i + 1))
        THEN [i |-> s.i + 1,
              list |-> Append(s.list,
                         TrimSpace(TrimSuffix(At(args, s.i + 1), <<"]">>)))]
        ELSE s

\* listValues without the TrimSpace of line 136.
listValuesUntrimmed(list) ==
    Split(TrimSuffix(TrimPrefix(Join(list, <<" ">>), <<"[">>), <<"]">>),
          <<" ">>)

\* Lines 135-139.
listValues(list) ==
    Split(TrimSuffix(TrimPrefix(TrimSpace(Join(list, <<" ">>)), <<"[">>),
                     <<"]">>),
          <<" ">>)

\* inlineValues without the Split of line 116.
inlineValuesUnsplit(v) ==
    <<TrimRight(TrimLeft(TrimSpace(v), {"["}), {"]"})>>

\* Lines 114-117.
inlineValues(v) ==
    Split(TrimRight(TrimLeft(TrimSpace(v), {"["}), {"]"}), <<",">>)

\* values with a bare value split at its commas as a bracketed one is.
valuesSplitAtCommas(args, i) ==
    LET v == value(At(args, i))
    IN  IF isList(v)
        THEN IF isListEnd(v)
             THEN inlineValues(v)
             ELSE listValues(listClose(args, i).list)
        ELSE IF v # << >> THEN Split(v, <<",">>) ELSE << >>

\* values after lines 108-143; nil is the empty sequence.
values(args, i) ==
    LET v == value(At(args, i))
    IN  IF isList(v)
        THEN IF isListEnd(v)
             THEN inlineValues(v)
             ELSE listValues(listClose(args, i).list)
        ELSE IF v # << >> THEN <<v>> ELSE << >>

\* i after lines 108-143.
cursor(args, i) ==
    LET v == value(At(args, i))
    IN  IF isList(v) /\ ~isListEnd(v) THEN listClose(args, i).i ELSE i

-----------------------------------------------------------------------------
(* Parse, lines 41-46.                                                      *)

ParseEmpty ==
    /\ pc = "Parse"
    /\ Len(input) = 0
    /\ pc' = "done"
    /\ result' = <<[node |-> ZeroArgv, err |-> ErrEmptyInput]>>
    /\ UNCHANGED <<input, stack, ret>>
    /\ UNCHANGED caller

\* ParseSplit without the test of line 42.
ParseSplitUnguarded ==
    /\ pc = "Parse"
    /\ pc' = "parseArgs"
    /\ stack' = <<NewFrame(Split(input, <<" ">>))>>
    /\ UNCHANGED <<input, ret, result>>
    /\ UNCHANGED caller

ParseSplit ==
    /\ pc = "Parse"
    /\ Len(input) # 0
    /\ pc' = "parseArgs"
    /\ stack' = <<NewFrame(Split(input, <<" ">>))>>
    /\ UNCHANGED <<input, ret, result>>
    /\ UNCHANGED caller

(* parseArgs, one iteration of the loop of lines 56-190 per step.           *)

\* Lines 59-61.
SkipIgnored ==
    /\ InLoop
    /\ isIgnored(arg)
    /\ Continue(top)

\* SetName without the assignment of line 70.
SetNameNotAssigned ==
    /\ InLoop
    /\ ~isIgnored(arg)
    /\ ~isFlag(arg) /\ ~top.withCommand
    /\ DOMAIN top.argd.Pairs = {}
    /\ Continue([top EXCEPT !.withCommand = TRUE])

\* SetName without the test of line 66.
SetNameAfterFlags ==
    /\ InLoop
    /\ ~isIgnored(arg)
    /\ ~isFlag(arg) /\ ~top.withCommand
    /\ Continue([top EXCEPT !.argd.Name = arg, !.withCommand = TRUE])

\* Lines 65-73, the name is taken.
SetName ==
    /\ InLoop
    /\ ~isIgnored(arg)
    /\ ~isFlag(arg) /\ ~top.withCommand
    /\ DOMAIN top.argd.Pairs = {}
    /\ Continue([top EXCEPT !.argd.Name = arg, !.withCommand = TRUE])

\* Lines 65-68.
MisplacedFlags ==
    /\ InLoop
    /\ ~isIgnored(arg)
    /\ ~isFlag(arg) /\ ~top.withCommand
    /\ DOMAIN top.argd.Pairs # {}
    /\ Return(top.argd, ErrMisplacedFlags)

\* BranchText without the test of line 79: the last token is parsed too.
BranchTextRecurses ==
    /\ InLoop
    /\ ~isIgnored(arg)
    /\ ~isFlag(arg) /\ top.withCommand
    /\ Len(From(top.args, top.i)) = 1
    /\ Call(top, From(top.args, top.i), 86)

\* BranchText naming the node by the last word.
BranchTextRenames ==
    /\ InLoop
    /\ ~isIgnored(arg)
    /\ ~isFlag(arg) /\ top.withCommand
    /\ Len(From(top.args, top.i)) = 1
    /\ Return([top.argd EXCEPT !.Name = arg], ErrNil)

\* Lines 77-84, the leaf.
BranchText ==
    /\ InLoop
    /\ ~isIgnored(arg)
    /\ ~isFlag(arg) /\ top.withCommand
    /\ Len(From(top.args, top.i)) = 1
    /\ Branch(top, top.i, 86)

\* BranchSub taking the word for a leaf when only ignorable tokens follow.
BranchSubLeafBeforeBlanks ==
    /\ InLoop
    /\ ~isIgnored(arg)
    /\ ~isFlag(arg) /\ top.withCommand
    /\ Len(From(top.args, top.i)) # 1
    /\ IF \A n \in (top.i + 1)..(Len(top.args) - 1) :
             isIgnored(At(top.args, n))
       THEN Return([top.argd EXCEPT !.Text = arg], ErrNil)
       ELSE Call(top, From(top.args, top.i), 86)

\* BranchSub passing over the bare word: the loop goes on at the same level.
BranchSubWordPassedOver ==
    /\ InLoop
    /\ ~isIgnored(arg)
    /\ ~isFlag(arg) /\ top.withCommand
    /\ Len(From(top.args, top.i)) # 1
    /\ Continue(top)

\* BranchSub calling parseArgs(args) in place of parseArgs(args[i:]).
BranchSubWholeSlice ==
    /\ InLoop
    /\ ~isIgnored(arg)
    /\ ~isFlag(arg) /\ top.withCommand
    /\ Len(From(top.args, top.i)) # 1
    /\ Call(top, top.args, 86)

\* Lines 77-86, the recursive call.
BranchSub ==
    /\ InLoop
    /\ ~isIgnored(arg)
    /\ ~isFlag(arg) /\ top.withCommand
    /\ Len(From(top.args, top.i)) # 1
    /\ Branch(top, top.i, 86)

\* Line 129, out of range.
FlagPanic ==
    /\ InLoop
    /\ ~isIgnored(arg)
    /\ isFlag(arg)
    /\ listPanics(top.args, top.i)
    /\ Panic

\* Lines 147-149.
FlagMissingValue ==
    /\ InLoop
    /\ ~isIgnored(arg)
    /\ isFlag(arg)
    /\ ~listPanics(top.args, top.i)
    /\ key(arg) # << >> /\ hasEq(arg)
    /\ Len(values(top.args, top.i)) = 0
    /\ Return(top.argd, ErrMissingFlagValue)

\* FlagPair refusing a flag that comes before the level has its Name.
FlagPairNeedsName ==
    /\ InLoop
    /\ ~isIgnored(arg)
    /\ isFlag(arg)
    /\ ~listPanics(top.args, top.i)
    /\ key(arg) # << >> /\ hasEq(arg)
    /\ Len(values(top.args, top.i)) # 0
    /\ IF top.withCommand
       THEN Continue([top EXCEPT
                        !.argd.Pairs =
                            Put(@, key(arg), values(top.args, top.i)),
                        !.i = cursor(top.args, top.i)])
       ELSE Return(top.argd, ErrMisplacedFlags)

\* FlagPair without the test of line 147: an empty value list is stored.
FlagPairUnchecked ==
    /\ InLoop
    /\ ~isIgnored(arg)
    /\ isFlag(arg)
    /\ ~listPanics(top.args, top.i)
    /\ key(arg) # << >> /\ hasEq(arg)
    /\ Continue([top EXCEPT
                   !.argd.Pairs = Put(@, key(arg), values(top.args, top.i)),
                   !.i = cursor(top.args, top.i)])

\* Lines 153-156.
FlagPair ==
    /\ InLoop
    /\ ~isIgnored(arg)
    /\ isFlag(arg)
    /\ ~listPanics(top.args, top.i)
    /\ key(arg) # << >> /\ hasEq(arg)
    /\ Len(values(top.args, top.i)) # 0
    /\ Continue([top EXCEPT
                   !.argd.Pairs = Put(@, key(arg), values(top.args, top.i)),
                   !.i = cursor(top.args, top.i)])

\* FlagNoEq filing the flag under the token, dashes and all.
FlagNoEqKeepsDashes ==
    /\ InLoop
    /\ ~isIgnored(arg)
    /\ isFlag(arg)
    /\ ~listPanics(top.args, top.i)
    /\ ~hasEq(arg)
    /\ Continue([top EXCEPT
                   !.argd.Pairs = Put(@, arg, <<Chars("true")>>)])

\* Lines 161-189: no equals sign.  lastIndex is the i of line 107.
FlagNoEq ==
    /\ InLoop
    /\ ~isIgnored(arg)
    /\ isFlag(arg)
    /\ ~listPanics(top.args, top.i)
    /\ ~hasEq(arg)
    /\ LET lastIndex == top.i
           i == cursor(top.args, top.i)
       IN  IF opt(arg) # << >> /\ key(arg) = << >>
           THEN Continue([top EXCEPT
                            !.argd.Pairs = Put(@, opt(arg), <<Chars("true")>>),
                            !.i = lastIndex])
           ELSE IF key(arg) = << >>
           THEN Branch([top EXCEPT !.i = i], lastIndex, 181)
           ELSE Continue([top EXCEPT !.i = i])

\* FlagNoKey with lines 153-154 not testing the key.
FlagNoKeyStored ==
    /\ InLoop
    /\ ~isIgnored(arg)
    /\ isFlag(arg)
    /\ ~listPanics(top.args, top.i)
    /\ hasEq(arg) /\ key(arg) = << >>
    /\ Continue([top EXCEPT
                   !.argd.Pairs = Put(@, key(arg), values(top.args, top.i)),
                   !.i = cursor(top.args, top.i)])

\* An equals sign and an empty key: no test of lines 147-172 holds.
FlagNoKey ==
    /\ InLoop
    /\ ~isIgnored(arg)
    /\ isFlag(arg)
    /\ ~listPanics(top.args, top.i)
    /\ hasEq(arg) /\ key(arg) = << >>
    /\ Continue([top EXCEPT !.i = cursor(top.args, top.i)])

\* Line 192.
LoopEnd ==
    /\ AtLoop
    /\ top.i >= Len(top.args)
    /\ Return(top.argd, ErrNil)

\* SubFailed returning the node with the Text of line 92 set.
SubFailedKeepsText ==
    /\ pc = "parseArgs"
    /\ ret # << >>
    /\ ret[1].err # ErrNil
    /\ Return([top.argd EXCEPT
                 !.Text = Join(From(top.args, top.i), <<" ">>)],
              ret[1].err)

\* Lines 87-89 and 182-184.
SubFailed ==
    /\ pc = "parseArgs"
    /\ ret # << >>
    /\ ret[1].err # ErrNil
    /\ Return(top.argd, ret[1].err)

\* SubParsed with the Text of line 92 taken from args[i+1:].
SubParsedTextOffByOne ==
    /\ pc = "parseArgs"
    /\ ret # << >>
    /\ ret[1].err = ErrNil
    /\ Return([top.argd EXCEPT
                 !.Sub = <<ret[1].node>>,
                 !.Text = Join(From(top.args, top.i + 1), <<" ">>)],
              ErrNil)

\* SubParsed without the assignment of line 91.
SubParsedSubNotSet ==
    /\ pc = "parseArgs"
    /\ ret # << >>
    /\ ret[1].err = ErrNil
    /\ Return([top.argd EXCEPT
                 !.Text = Join(From(top.args, top.i), <<" ">>)],
              ErrNil)

\* Lines 91-93 and 186-188.
SubParsed ==
    /\ pc = "parseArgs"
    /\ ret # << >>
    /\ ret[1].err = ErrNil
    /\ Return([top.argd EXCEPT
                 !.Sub = <<ret[1].node>>,
                 !.Text = Join(From(top.args, top.i), <<" ">>)],
              ErrNil)

-----------------------------------------------------------------------------
(* The inputs of Parse: every line of at most MaxTokens tokens of          *)
(* Vocabulary, the command lines of the tests and the Readme, and further   *)
(* lines that are longer or hold tokens Vocabulary lacks.                   *)

MaxTokens == 3

Vocabulary ==
    {Chars(s) : s \in {"", "a", "c]", "]", "-h", "--k=v", "--k=",
                       "--k=[a", "--k=[", "--=v"}}

Lines(n) == {Join(ts, <<" ">>) : ts \in [1..n -> Vocabulary]}

TestLines ==
    {Chars(s) : s \in {
        "example --rack=20 --dirs=[drum flag kick] push git@ghu.com/fla.git",
        "rocket  --name=wallet -rack=ball -h",
        "runket -w=323 -j danger ricker --name=[ bog willow crack ] -rack=ball -h renditions recka"}}

MoreLines ==
    {Chars(s) : s \in {
        "example --rack=20 push git@ghu.com/fla.git",
        "p --dirs=[drum flag kick]",
        "p --k=[ a b ] -h c",
        "p --k=[a b c] d e",
        "p - -h -- --k=v",
        "a -x b -y c -z d",
        "p --k=v1,v2",
        "cmd -k=a,b,c",
        "p --k=[]",
        "p --k=[a,b]",
        "--x=1 name",
        "--x=1 -h",
        "p -h --=v q -x r",
        "a b --k= c",
        "p --k=[a b -x",
        "p --k=[a -x] b",
        "p --k=[a b]] c",
        "p --\t=v --k=\ta\t -h",
        "p --k=[a \t c] -h",
        "p --k=[a\t b c\t]",
        " ",
        "   ",
        "-",
        "p --k=[] q",
        "--k=[ [a ]",
        "p --k=[[a c] -h",
        "p --k=[ [a b c ]",
        "[a c] -h b",
        "--k=\t",
        "p --k=\t q",
        "a b --\tk\t=\tv\t c",
        "p --\t= q",
        "a -h b -h",
        "a b c d",
        "a -- b - c",
        "p -h -h --h=v",
        "p --k=[a b",
        "cmd sub",
        "cmd sub ",
        "a -x b -y --k= c",
        "-h -- --k=[a b] -",
        "p -k=a=b",
        "p --k=a=b",
        "p ---k=a=b q",
        "p --k=[a,b,c]",
        "p --k=[a,b,c] q -h",
        "p --k=[a,b c]",
        "p --k=[a,b c,d e] -h",
        "p --k=v --k=w",
        "p --k=v -k",
        "p -k --k=[a b] --k=c q --k=d",
        "--=v name --k=v",
        "p --k=[[a,b]] q",
        "p --k=[a,,b]",
        "p --- q",
        "--- -x ----",
        "p --=[a",
        "--=[a b] name",
        "--=[a,b] name -h"}}

Inputs ==
    (UNION {Lines(n) : n \in 0..MaxTokens}) \cup TestLines \cup MoreLines

\* A Command: its Name, whether it has an Action, its Commands.
NoCommand == [Name |-> << >>, Action |-> FALSE, Commands |-> {}]

\* No channel made yet, no goroutine started.
NoChannel == [notify |-> FALSE, buf |-> << >>, closed |-> FALSE, sent |-> 0]

NoGoroutine ==
    [pc |-> "none", c |-> NoCommand, arg |-> ZeroArgv, err |-> "none"]

\* Parse called on its own, by a caller that is not cmdkit's Run.
NoCaller ==
    /\ commands = {}
    /\ run = "none"
    /\ carg = ZeroArgv
    /\ ch = NoChannel
    /\ cmd = NoGoroutine
    /\ cancelled = FALSE

Init ==
    /\ input \in Inputs
    /\ pc = "Parse"
    /\ stack = << >>
    /\ ret = << >>
    /\ result = << >>
    /\ NoCaller

Next ==
    \/ ParseEmpty
    \/ ParseSplit
    \/ SkipIgnored
    \/ SetName
    \/ MisplacedFlags
    \/ BranchText
    \/ BranchSub
    \/ FlagPanic
    \/ FlagMissingValue
    \/ FlagPair
    \/ FlagNoEq
    \/ FlagNoKey
    \/ LoopEnd
    \/ SubFailed
    \/ SubParsed

Spec == Init /\ [][Next]_vars

-----------------------------------------------------------------------------
(* Package cmdkit: Run, lines 1102-1212 of part_002, from its call of       *)
(* argv.Parse on, and Command.Run, lines 989-1041, in the goroutine Run     *)
(* starts.  A map of commands is the set of its values: the key of a        *)
(* command is its Name (lines 964 and 1112).                                *)

Has(cmds, name) == \E c \in cmds : c.Name = name

Lookup(cmds, name) == CHOOSE c \in cmds : c.Name = name

\* make(chan os.Signal, 3).
ChanCap == 3

Signals == {"Interrupt", "SIGQUIT", "SIGTERM"}

\* Lines 1167-1180: one of the three tests that print a usage text holds.
PrintsUsage(a) ==
    \/ HasKV(a, Chars("h")) \/ HasKV(a, Chars("help"))
    \/ HasKV(a, Chars("flags"))
    \/ a.Sub = << >>

\* Lines 1155-1159: Parse failed, the error is printed.
RunParseFailed ==
    /\ run = "1155" /\ pc = "done"
    /\ result[1].err # ErrNil
    /\ run' = "returned"
    /\ UNCHANGED <<parser, commands, carg, ch, cmd, cancelled>>

\* Lines 1155-1165: Parse succeeded; a Text that names a command becomes
\* the Sub.
RunParsed ==
    /\ run = "1155" /\ pc = "done"
    /\ result[1].err = ErrNil
    /\ carg' = IF Has(commands, result[1].node.Text)
               THEN [result[1].node EXCEPT
                        !.Sub = <<New(result[1].node.Text)>>]
               ELSE result[1].node
    /\ run' = "1167"
    /\ UNCHANGED <<parser, commands, ch, cmd, cancelled>>

\* Lines 1167-1180.
RunUsage ==
    /\ run = "1167"
    /\ PrintsUsage(carg)
    /\ run' = "returned"
    /\ UNCHANGED <<parser, commands, carg, ch, cmd, cancelled>>

\* Lines 1182-1186.
RunNotFound ==
    /\ run = "1167"
    /\ ~PrintsUsage(carg)
    /\ ~Has(commands, carg.Sub[1].Name)
    /\ run' = "returned"
    /\ UNCHANGED <<parser, commands, carg, ch, cmd, cancelled>>

\* Lines 1188-1196: process fails on some flag; the deferred cancel runs.
RunProcessFailed ==
    /\ run = "1167"
    /\ ~PrintsUsage(carg)
    /\ Has(commands, carg.Sub[1].Name)
    /\ run' = "returned"
    /\ cancelled' = TRUE
    /\ UNCHANGED <<parser, commands, carg, ch, cmd>>

\* Lines 1188-1209: the channel is made and registered for the three
\* signals, the goroutine is started on target.Run(carg.Sub, &cmdCtx), and
\* Run comes to the receive of line 1211.
RunStart ==
    /\ run = "1167"
    /\ ~PrintsUsage(carg)
    /\ Has(commands, carg.Sub[1].Name)
    /\ ch' = [NoChannel EXCEPT !.notify = TRUE]
    /\ cmd' = [pc |-> "Run",
               c |-> Lookup(commands, carg.Sub[1].Name),
               arg |-> carg.Sub[1],
               err |-> "none"]
    /\ run' = "1211"
    /\ UNCHANGED <<parser, commands, carg, cancelled>>

(* Command.Run in the goroutine of lines 1203-1209.                         *)

InRun == cmd.pc = "Run"

\* Lines 990-998: a usage text is printed.
CmdPrintsUsage(a) ==
    \/ HasKV(a, Chars("help")) \/ HasKV(a, Chars("h"))
    \/ HasKV(a, Chars("flags"))

\* target.Run returns err to the goroutine, whose deferred close(ch) runs.
Finish(err) ==
    /\ cmd' = [cmd EXCEPT !.pc = "done", !.err = err]
    /\ ch' = [ch EXCEPT !.closed = TRUE]
    /\ UNCHANGED <<parser, commands, run, carg, cancelled>>

\* runSubCommand, lines 1034-1041, on the command c.
runSubCommand(c, a) ==
    IF Has(c.Commands, a.Name)
    THEN /\ cmd' = [cmd EXCEPT !.c = Lookup(c.Commands, a.Name), !.arg = a]
         /\ UNCHANGED <<parser, commands, run, carg, ch, cancelled>>
    ELSE Finish("has no subcommand")

\* Lines 990-998.
CmdUsage ==
    /\ InRun
    /\ CmdPrintsUsage(cmd.arg)
    /\ Finish("nil")

\* Lines 1000-1002.
CmdNoAction ==
    /\ InRun
    /\ ~CmdPrintsUsage(cmd.arg)
    /\ ~cmd.c.Action
    /\ Finish("no action associated with command")

\* Lines 1004-1009: process fails on some flag.
CmdProcessFailed ==
    /\ InRun
    /\ ~CmdPrintsUsage(cmd.arg)
    /\ cmd.c.Action
    /\ Finish("process")

\* Lines 1012-1014.
CmdSub ==
    /\ InRun
    /\ ~CmdPrintsUsage(cmd.arg)
    /\ cmd.c.Action
    /\ cmd.arg.Sub # << >>
    /\ runSubCommand(cmd.c, cmd.arg.Sub[1])

\* Lines 1018-1021: a Text that names a command of c becomes the Sub.
CmdText ==
    /\ InRun
    /\ ~CmdPrintsUsage(cmd.arg)
    /\ cmd.c.Action
    /\ cmd.arg.Sub = << >>
    /\ Has(cmd.c.Commands, cmd.arg.Text)
    /\ runSubCommand(cmd.c, New(cmd.arg.Text))

\* Lines 1023-1031: the Action is run and returns.
CmdAction ==
    /\ InRun
    /\ ~CmdPrintsUsage(cmd.arg)
    /\ cmd.c.Action
    /\ cmd.arg.Sub = << >>
    /\ ~Has(cmd.c.Commands, cmd.arg.Text)
    /\ Finish("Action")

(* The signals and the receive of line 1211.                                *)

MaxSignals == 4

\* os/signal sends without blocking: a signal is dropped when the buffer is
\* full, and a send on the channel once closed panics.
SignalDelivered ==
    /\ run = "1211"
    /\ ch.notify
    /\ ch.sent < MaxSignals
    /\ \E sig \in Signals :
          IF ch.closed
          THEN /\ run' = "panic"
               /\ ch' = [ch EXCEPT !.sent = @ + 1]
          ELSE /\ run' = run
               /\ ch' = [ch EXCEPT
                           !.sent = @ + 1,
                           !.buf = IF Len(@) < ChanCap
                                   THEN Append(@, sig) ELSE @]
    /\ UNCHANGED <<parser, commands, carg, cmd, cancelled>>

\* Lines 1211-1212: a signal is received, or the zero value once the
\* channel is closed and empty; Run returns and the deferred cancel runs.
RunReceive ==
    /\ run = "1211"
    /\ ch.buf # << >> \/ ch.closed
    /\ ch' = [ch EXCEPT !.buf = IF @ = << >> THEN @ ELSE Tail(@)]
    /\ run' = "returned"
    /\ cancelled' = TRUE
    /\ UNCHANGED <<parser, commands, carg, cmd>>

(* Run as a program: the command lines (os.Args joined with spaces, the     *)
(* program's name first) and the commands given to Run.                     *)

Leaf(name) == [Name |-> Chars(name), Action |-> TRUE, Commands |-> {}]

Registries ==
    {{},
     {Leaf("push")},
     {[Name |-> Chars("push"), Action |-> TRUE,
       Commands |-> {Leaf("origin"), Leaf("")}],
      [Name |-> Chars("b"), Action |-> TRUE, Commands |-> {Leaf("c")}],
      Leaf("b c"),
      [Name |-> Chars("noact"), Action |-> FALSE, Commands |-> {}]}}

CommandLines ==
    {Chars(s) : s \in {
        "",
        "prog",
        "-h prog",
        "prog --k=[",
        "prog --k=",
        "prog --=v push",
        "prog b --k=",
        "prog push",
        "prog push ",
        "prog push origin",
        "prog push origin master",
        "prog push -h",
        "prog push --flags",
        "prog -h push",
        "prog --flags push",
        "prog --v=1 push origin",
        "prog pull",
        "prog b c",
        "prog b d",
        "prog noact",
        "prog push --k=[a b] up"}}

RunInit ==
    /\ input \in CommandLines
    /\ pc = "Parse"
    /\ stack = << >>
    /\ ret = << >>
    /\ result = << >>
    /\ commands \in Registries
    /\ run = "1155"
    /\ carg = ZeroArgv
    /\ ch = NoChannel
    /\ cmd = NoGoroutine
    /\ cancelled = FALSE

RunNext ==
    \/ Next
    \/ RunParseFailed
    \/ RunParsed
    \/ RunUsage
    \/ RunNotFound
    \/ RunProcessFailed
    \/ RunStart
    \/ CmdUsage
    \/ CmdNoAction
    \/ CmdProcessFailed
    \/ CmdSub
    \/ CmdText
    \/ CmdAction
    \/ SignalDelivered
    \/ RunReceive

RunSpec == RunInit /\ [][RunNext]_vars


-----------------------------------------------------------------------------
(* What the properties speak of: the outcome of Parse, the tokens of the    *)
(* input, and the tokens the loop of parseArgs reaches.                     *)

Done == pc = "done"

Node == result[1].node

Err == result[1].err

Succeeded == Done /\ Err = ErrNil

Tokens == Split(input, <<" ">>)

Str(s) == Chars(s)

\* The nodes from a node down its Sub pointers.
RECURSIVE Chain(_)
Chain(node) ==
    IF node.Sub = << >> THEN <<node>> ELSE <<node>> \o Chain(node.Sub[1])

IsBare(t) == ~isIgnored(t) /\ ~isFlag(t)

\* The text a flag is filed under: what precedes its first '=', or all of it.
FlagKey(t) == IF hasEq(t) THEN key(t) ELSE opt(t)

\* The positions of ts, from n on, that the loop reaches in a parse that
\* neither fails nor panics: the tokens a list swallows are passed over.
RECURSIVE Reached(_, _)
Reached(ts, n) ==
    IF n >= Len(ts) THEN << >>
    ELSE IF isIgnored(At(ts, n)) THEN Reached(ts, n + 1)
    ELSE IF isFlag(At(ts, n)) THEN <<n>> \o Reached(ts, cursor(ts, n) + 1)
    ELSE <<n>> \o Reached(ts, n + 1)

SeqToSet(q) == {q[n] : n \in DOMAIN q}

BareAt(ts) == {n \in SeqToSet(Reached(ts, 0)) : IsBare(At(ts, n))}

FlagsAt(ts) == {n \in SeqToSet(Reached(ts, 0)) : isFlag(At(ts, n))}

\* How many bare words the loop reaches before position n.
BaresBefore(ts, n) == Cardinality({b \in BareAt(ts) : b < n})

\* The bare word that names the d-th node, d from 1.
NthBare(ts, d) == CHOOSE b \in BareAt(ts) : BaresBefore(ts, b) = d - 1

\* The node a flag at position n belongs to: that of the nearest bare word
\* before it, the top node when there is none.
Owner(ts, n) == IF BaresBefore(ts, n) = 0 THEN 1 ELSE BaresBefore(ts, n)

\* A last bare word that is the last token and not the first bare word is
\* the Text of the node above it, every other bare word names a node.
NodeCount(ts) ==
    LET m == Cardinality(BareAt(ts))
    IN  IF m = 0 THEN 1
        ELSE IF m >= 2 /\ (Len(ts) - 1) \in BareAt(ts) THEN m - 1
        ELSE m

-----------------------------------------------------------------------------
(* C1, as stated: in every successful Parse each token processed as a flag *)
(* is recorded in the Pairs of exactly one node, the node named by the      *)
(* nearest bare word before it (the top node when none precedes it); no     *)
(* node holds a flag written after another name, so a node whose name is    *)
(* directly followed by a bare word has empty Pairs.                        *)
C1_EveryFlagRecorded ==
    Succeeded =>
        LET ts == Tokens
            nodes == Chain(Node)
        IN  /\ Len(nodes) = NodeCount(ts)
            /\ \A d \in 1..Len(nodes) :
                  /\ BareAt(ts) # {} => nodes[d].Name = At(ts, NthBare(ts, d))
                  /\ DOMAIN nodes[d].Pairs =
                        {FlagKey(At(ts, n)) :
                            n \in {f \in FlagsAt(ts) : Owner(ts, f) = d}}

(* C1, amended: the same of each flag token with a non-empty key; a flag   *)
(* token whose key is empty ('--=v') is recorded in no node.                *)
C1_KeyedFlagsRecorded ==
    Succeeded =>
        LET ts == Tokens
            nodes == Chain(Node)
        IN  /\ Len(nodes) = NodeCount(ts)
            /\ \A d \in 1..Len(nodes) :
                  /\ BareAt(ts) # {} => nodes[d].Name = At(ts, NthBare(ts, d))
                  /\ DOMAIN nodes[d].Pairs =
                        {FlagKey(At(ts, n)) :
                            n \in {f \in FlagsAt(ts) :
                                     /\ Owner(ts, f) = d
                                     /\ FlagKey(At(ts, f)) # << >>}}

\* The test's command line: w and j on runket, nothing on danger, name, rack
\* and h on ricker.
C1_Witness ==
    /\ Succeeded
    /\ input = Str("runket -w=323 -j danger ricker --name=[ bog willow crack ] -rack=ball -h renditions recka")
    /\ DOMAIN Node.Pairs = {Str("w"), Str("j")}
    /\ DOMAIN Node.Sub[1].Pairs = {}
    /\ DOMAIN Node.Sub[1].Sub[1].Pairs = {Str("name"), Str("rack"), Str("h")}

(* C2: when the first space-separated token of the input is neither a flag *)
(* nor ignorable, the node Parse returns has that token as its Name.        *)
C2_NameIsFirstToken ==
    (Done /\ IsBare(Tokens[1])) => Node.Name = Tokens[1]

C2_Witness ==
    /\ Done
    /\ input = Str("rocket  --name=wallet -rack=ball -h")
    /\ Node.Name = Str("rocket")

-----------------------------------------------------------------------------
(* What a step of parseArgs hands back: to the calling parseArgs (ret) or,  *)
(* from the outermost call, to the caller of Parse (result).                *)

Out == IF pc = "done" THEN result[1] ELSE ret[1]

Returns == stack # << >> /\ Len(stack') = Len(stack) - 1

\* The loop is at a bare word and the level has its Name.
AtBranch == InLoop /\ IsBare(arg) /\ top.withCommand

\* A recursive call has just returned to the frame on top.
SubReturned == pc = "parseArgs" /\ ret # << >>

\* The step at the bare token: parseArgs is called on the slice from it on.
C3_BranchStep ==
    (AtBranch /\ top.i # Len(top.args) - 1) =>
        /\ stack' = <<NewFrame(From(top.args, top.i)),
                      [top EXCEPT !.line = 86]>> \o Tail(stack)
        /\ pc' = pc /\ ret' = << >>

\* The step after the call: its node becomes the Sub of the level's node.
C3_Attached ==
    /\ Returns
    /\ Out'.node.Sub = <<ret[1].node>>
    /\ Out'.node.Sub[1].Name = At(top.args, top.i)
    /\ Out'.node.Text = Join(From(top.args, top.i), <<" ">>)
    /\ Out'.node.Name = top.argd.Name
    /\ Out'.node.Pairs = top.argd.Pairs

\* In a parse that succeeded, every node above the last has as Text the
\* tokens of the input from the next node's name to the end.
C3_Texts ==
    Succeeded =>
        LET ts == Tokens
            nodes == Chain(Node)
        IN  \A d \in 1..(Len(nodes) - 1) :
               /\ nodes[d].Text = Join(From(ts, NthBare(ts, d + 1)), <<" ">>)
               /\ nodes[d].Sub[1].Name = At(ts, NthBare(ts, d + 1))

(* C3, as stated: a bare token met after the Name is set, and not the last *)
(* token of the slice, starts a parse of the slice from that token on; the  *)
(* node of the level then has that parse as its Sub, the single-space join  *)
(* of the same tokens as its Text, the bare token as Sub.Name, and the      *)
(* Name and Pairs it had when the bare token was met.                       *)
C3_SubIsTheParse ==
    [][C3_BranchStep /\ (SubReturned => C3_Attached)]_vars

(* C3, amended: the same, provided the parse of the slice returns no error *)
(* (when it fails the node is returned with Sub nil, Text empty and the     *)
(* error).                                                                  *)
C3_SubIsTheParseIfItSucceeds ==
    /\ []C3_Texts
    /\ [][/\ C3_BranchStep
          /\ (SubReturned /\ ret[1].err = ErrNil) => C3_Attached]_vars

\* The Readme's command line.
C3_Witness ==
    /\ Succeeded
    /\ input = Str("example --rack=20 --dirs=[drum flag kick] push git@ghu.com/fla.git")
    /\ Node.Text = Str("push git@ghu.com/fla.git")
    /\ Node.Sub # << >>
    /\ Node.Sub[1].Name = Str("push")
    /\ DOMAIN Node.Pairs = {Str("rack"), Str("dirs")}

\* The step at the last token: the node is returned with the token as Text.
C4_LeafStep ==
    (AtBranch /\ top.i = Len(top.args) - 1) =>
        /\ Returns
        /\ Out'.node = [top.argd EXCEPT !.Text = arg]
        /\ Out'.node.Sub = << >>
        /\ Out'.err = ErrNil

\* In the outcome the trailing word is the Text of the last node.
C4_Leaf ==
    Succeeded =>
        LET ts == Tokens
            nodes == Chain(Node)
            last == nodes[Len(nodes)]
        IN  (Cardinality(BareAt(ts)) >= 2 /\ (Len(ts) - 1) \in BareAt(ts)) =>
               /\ last.Text = ts[Len(ts)]
               /\ last.Sub = << >>
               /\ Len(nodes) = Cardinality(BareAt(ts)) - 1

(* C4: a bare token met after the Name is set that is the last token of    *)
(* the slice becomes the Text of the level's node, which is returned at     *)
(* once with Sub nil: no parse is started for it, no node is made for it.   *)
C4_TrailingWordIsText == []C4_Leaf /\ [][C4_LeafStep]_vars

C4_Witness ==
    /\ Succeeded
    /\ input = Str("example --rack=20 push git@ghu.com/fla.git")
    /\ Node.Sub # << >>
    /\ Node.Sub[1].Name = Str("push")
    /\ Node.Sub[1].Text = Str("git@ghu.com/fla.git")
    /\ Node.Sub[1].Sub = << >>

-----------------------------------------------------------------------------
(* A flag token as it is written: what stands between the dashes and the   *)
(* first '=', and what stands after the first '='.                          *)

RawKey(t) == UpTo(opt(t), Index(opt(t), <<"=">>))

RawValue(t) == From(opt(t), Index(opt(t), <<"=">>) + 1)

Last(s) == s[Len(s)]

NonEmpty(s) == IF s = << >> THEN << >> ELSE <<s>>

\* The loop is at a flag token.
AtFlag == InLoop /\ ~isIgnored(arg) /\ isFlag(arg)

\* The step stays in the same activation of parseArgs, on the same slice.
SameLevel ==
    /\ pc' = pc
    /\ Len(stack') = Len(stack)
    /\ Tail(stack') = Tail(stack)
    /\ Head(stack').args = top.args
    /\ Head(stack').line = 56
    /\ Head(stack').argd.Name = top.argd.Name
    /\ Head(stack').argd.Sub = top.argd.Sub
    /\ Head(stack').argd.Text = top.argd.Text
    /\ Head(stack').withCommand = top.withCommand

\* t opens a list that goes on in the tokens after it: '--k=[' or '--k=[e1'.
OpensList(t) ==
    /\ isFlag(t) /\ hasEq(t) /\ key(t) # << >>
    /\ RawValue(t) # << >>
    /\ Head(RawValue(t)) = "["
    /\ Last(RawValue(t)) # "]"

\* The closing token of the list opened at n: the first later token that
\* ends with ']'.
Closers(ts, n) == {q \in (n + 1)..(Len(ts) - 1) : Last(<<"x">> \o At(ts, q)) = "]"}

Closer(ts, n) == CHOOSE q \in Closers(ts, n) : \A r \in Closers(ts, n) : q <= r

\* The tokens strictly between the opening and the closing token.
Between(ts, n) == SubSeq(ts, n + 2, Closer(ts, n))

\* e1 .. en as written: what is attached to the '[', the tokens between,
\* and what the closing token holds before its final ']'.
Elements(ts, n) ==
    LET c == At(ts, Closer(ts, n))
    IN  NonEmpty(Tail(RawValue(At(ts, n))))
            \o Between(ts, n)
            \o NonEmpty(UpTo(c, Len(c) - 1))

\* The list of the claim: a closing token exists, the elements are
\* separated by single spaces and none of those between is a flag.
SpreadList(ts, n) ==
    /\ OpensList(At(ts, n))
    /\ Closers(ts, n) # {}
    /\ Elements(ts, n) # << >>
    /\ \A m \in DOMAIN Between(ts, n) :
          Between(ts, n)[m] # << >> /\ ~isFlag(Between(ts, n)[m])

\* No white space at either end of an element, no '[' in front of the
\* first, no ']' behind the last.
CleanElements(es) ==
    /\ \A m \in DOMAIN es :
          es[m] # << >> /\ Head(es[m]) \notin WhiteSpace
                        /\ Last(es[m]) \notin WhiteSpace
    /\ Head(es[1]) # "["
    /\ Last(es[Len(es)]) # "]"

\* The step files the elements under the key and moves past the closing token.
C5_ListStored ==
    /\ SameLevel
    /\ Head(stack').argd.Pairs =
          Put(top.argd.Pairs, key(arg), Elements(top.args, top.i))
    /\ \A m \in DOMAIN Head(stack').argd.Pairs[key(arg)] :
          Head(stack').argd.Pairs[key(arg)][m] # << >>
    /\ Head(stack').i = Closer(top.args, top.i) + 1

(* C5, as stated: for a flag '--k=[e1 e2 ... en]' whose list is spread     *)
(* over several tokens, none of them a flag or ending with ']' before the   *)
(* closing token, Pairs[k] becomes exactly <<e1, ..., en>>, without empty   *)
(* strings, the brackets attached to e1 and en or standing alone, and the   *)
(* loop goes on at the token after the closing one.                         *)
C5_SpreadListIsItsElements ==
    [][(AtFlag /\ SpreadList(top.args, top.i)) => C5_ListStored]_vars

(* C5, amended: the same when, besides, no element starts or ends with     *)
(* white space, e1 does not start with '[' and en does not end with ']'     *)
(* (the code trims white space off every element, strips every '[' in       *)
(* front of an attached e1, one '[' in front of the list and one ']'        *)
(* behind it).                                                              *)
C5_CleanSpreadListIsItsElements ==
    /\ [](Done /\ input = Str("p --dirs=[drum flag kick]") =>
             /\ Err = ErrNil
             /\ Node.Pairs[Str("dirs")] =
                   <<Str("drum"), Str("flag"), Str("kick")>>)
    /\ [][(/\ AtFlag
           /\ SpreadList(top.args, top.i)
           /\ CleanElements(Elements(top.args, top.i))) => C5_ListStored]_vars

\* Brackets that stand alone, and the tokens after the closing one.
C5_Witness ==
    /\ Succeeded
    /\ input = Str("p --k=[ a b ] -h c")
    /\ Node.Pairs[Str("k")] = <<Str("a"), Str("b")>>
    /\ Node.Pairs[Str("h")] = <<Str("true")>>
    /\ Node.Text = Str("c")

-----------------------------------------------------------------------------
\* The input is '<name> <flag>' and the flag's value holds commas and no
\* bracket.
CommaValueLine ==
    /\ Len(Tokens) = 2
    /\ IsBare(Tokens[1])
    /\ isFlag(Tokens[2]) /\ hasEq(Tokens[2]) /\ key(Tokens[2]) # << >>
    /\ \E m \in DOMAIN RawValue(Tokens[2]) : RawValue(Tokens[2])[m] = ","
    /\ \A m \in DOMAIN RawValue(Tokens[2]) :
          RawValue(Tokens[2])[m] \notin {"[", "]"}

(* C6, as stated: '<name> --k=v1,v2' gives Pairs[k] = <<v1, v2>> and a nil *)
(* Sub.                                                                     *)
C6_CommaValueIsSplit ==
    (Done /\ CommaValueLine) =>
        /\ Err = ErrNil
        /\ Node.Pairs[key(Tokens[2])] = Split(RawValue(Tokens[2]), <<",">>)
        /\ Node.Sub = << >>

(* C6, amended: '<name> --k=v1,v2' gives Pairs[k] = <<"v1,v2">>, the one   *)
(* value that follows the '=', and a nil Sub: only a bracketed value is     *)
(* split at its commas.                                                     *)
C6_CommaValueIsOneValue ==
    (Done /\ CommaValueLine) =>
        /\ Err = ErrNil
        /\ Node.Name = Tokens[1]
        /\ DOMAIN Node.Pairs = {key(Tokens[2])}
        /\ Node.Pairs[key(Tokens[2])] = <<TrimSpace(RawValue(Tokens[2]))>>
        /\ Node.Sub = << >>

C6_Witness ==
    /\ Succeeded
    /\ input = Str("p --k=v1,v2")
    /\ Node.Pairs[Str("k")] = <<Str("v1,v2")>>
    /\ Node.Sub = << >>

-----------------------------------------------------------------------------
\* A flag without '=' is filed under what follows its dashes.
C7_BoolStep ==
    (AtFlag /\ Index(arg, <<"=">>) = -1) =>
        /\ SameLevel
        /\ Head(stack').argd.Pairs =
              Put(top.argd.Pairs, TrimLeft(arg, {"-"}), <<Str("true")>>)
        /\ Head(stack').i = top.i + 1

\* '<name> -h'.
C7_NameAndBool ==
    (Done /\ Len(Tokens) = 2 /\ IsBare(Tokens[1]) /\ isFlag(Tokens[2])
          /\ Index(Tokens[2], <<"=">>) = -1) =>
        /\ Err = ErrNil
        /\ DOMAIN Node.Pairs = {TrimLeft(Tokens[2], {"-"})}
        /\ Node.Pairs[TrimLeft(Tokens[2], {"-"})] = <<Str("true")>>

(* C7: a flag token without '=' that the loop reaches is stored as         *)
(* Pairs[opt] = <<"true">>, opt the token without its leading dashes, and   *)
(* the loop goes on with the next token of the same level; '<name> -h'      *)
(* gives Pairs["h"] = <<"true">>.                                           *)
C7_FlagWithoutEqIsTrue == []C7_NameAndBool /\ [][C7_BoolStep]_vars

C7_Witness ==
    /\ Succeeded
    /\ input = Str("rocket  --name=wallet -rack=ball -h")
    /\ Node.Pairs[Str("h")] = <<Str("true")>>
    /\ Node.Pairs[Str("rack")] = <<Str("ball")>>

-----------------------------------------------------------------------------
\* The one step of Parse: fail on the empty string, split any other.
C8_ParseStep ==
    pc = "Parse" =>
        IF Len(input) = 0
        THEN /\ pc' = "done"
             /\ stack' = << >> /\ ret' = << >>
             /\ result'[1].err = ErrEmptyInput
        ELSE /\ pc' = "parseArgs"
             /\ Len(stack') = 1
             /\ Join(Head(stack').args, <<" ">>) = input
             /\ \A m \in DOMAIN Head(stack').args :
                   \A c \in DOMAIN Head(stack').args[m] :
                      Head(stack').args[m][c] # " "
             /\ Head(stack').i = 0

\* Nothing is parsed of the empty string; no other string ends in EmptyInput.
C8_EmptyOnly ==
    /\ Len(input) = 0 => stack = << >> /\ pc \in {"Parse", "done"}
    /\ Done => (Err = ErrEmptyInput <=> Len(input) = 0)

(* C8: Parse of the zero-length string fails with the EmptyInput error     *)
(* and neither splits it nor calls parseArgs; every other string, one made  *)
(* of spaces only too, is split at its spaces and handed to parseArgs, and  *)
(* never ends in EmptyInput.                                                *)
C8_EmptyInputOnlyForEmptyString == []C8_EmptyOnly /\ [][C8_ParseStep]_vars

C8_Witness ==
    /\ Done
    /\ input = << >>
    /\ Err = ErrEmptyInput
    /\ stack = << >>

-----------------------------------------------------------------------------
\* A bare token is reached at a level that has taken no Name and holds a
\* flag already.
BareAfterFlags ==
    /\ InLoop /\ IsBare(arg)
    /\ top.argd.Name = << >>
    /\ DOMAIN top.argd.Pairs # {}

\* The step returns err from an activation of parseArgs.
ReturnsErr(err) == Returns /\ Out'.err = err

\* The step passes on the error of the recursive call it made.
PassesOn(err) == SubReturned /\ ret[1].err = err

\* The error is returned there, and nowhere else but passed up.
C9_Step ==
    /\ BareAfterFlags => ReturnsErr(ErrMisplacedFlags) /\ Out'.node = top.argd
    /\ ReturnsErr(ErrMisplacedFlags) =>
          BareAfterFlags \/ PassesOn(ErrMisplacedFlags)

\* Parse itself adds no such error to what parseArgs returns, and the flags
\* that were misplaced are those of the node returned.
C9_Outcome ==
    (Done /\ Err = ErrMisplacedFlags) =>
        /\ Len(input) # 0
        /\ Node.Name = << >>
        /\ DOMAIN Node.Pairs # {}
        /\ \E n \in DOMAIN Tokens : IsBare(Tokens[n])
        /\ \E n \in DOMAIN Tokens :
              isFlag(Tokens[n]) /\ FlagKey(Tokens[n]) \in DOMAIN Node.Pairs

(* C9: Parse fails with MisplacedFlags exactly when, at some level, a bare *)
(* token is reached while the level has no Name yet and its Pairs is not    *)
(* empty; the error arises nowhere else and is otherwise only passed up.    *)
C9_MisplacedFlagsExactly == []C9_Outcome /\ [][C9_Step]_vars

C9_Witness ==
    /\ Done
    /\ input = Str("--x=1 name")
    /\ Err = ErrMisplacedFlags

-----------------------------------------------------------------------------
\* The error names a flag of the input that has a key and no value.
C10_Outcome ==
    /\ (Done /\ Err = ErrMissingFlagValue) =>
          \E n \in DOMAIN Tokens :
             /\ isFlag(Tokens[n]) /\ hasEq(Tokens[n])
             /\ TrimSpace(RawKey(Tokens[n])) # << >>
             /\ TrimSpace(RawValue(Tokens[n])) = << >>
    /\ (Done /\ input = Str("p --k=[]")) =>
          /\ Err = ErrNil
          /\ Len(Node.Pairs[Str("k")]) = 1

\* A value in brackets never brings the error; '[]' is stored as one value.
C10_Bracketed ==
    (AtFlag /\ hasEq(arg) /\ RawValue(arg) # << >> /\ Head(RawValue(arg)) = "[") =>
        /\ ~ReturnsErr(ErrMissingFlagValue)
        /\ (key(arg) # << >> /\ RawValue(arg) = Str("[]")) =>
              /\ SameLevel
              /\ Len(Head(stack').argd.Pairs[key(arg)]) = 1

\* The error arises at a flag token, or is passed up.
C10_OnlyAtFlags ==
    ReturnsErr(ErrMissingFlagValue) =>
        AtFlag \/ PassesOn(ErrMissingFlagValue)

(* C10, as stated: Parse fails with MissingFlagValue if and only if a flag *)
(* token the loop reaches has a non-empty key, holds '=' and has nothing    *)
(* after its first '='; a bracketed value never brings the error and        *)
(* '--k=[]' stores a sequence of one value.                                 *)
C10_NothingAfterEq ==
    [][/\ AtFlag =>
            (ReturnsErr(ErrMissingFlagValue) <=>
                (hasEq(arg) /\ RawKey(arg) # << >> /\ RawValue(arg) = << >>))
       /\ C10_OnlyAtFlags
       /\ C10_Bracketed]_vars

(* C10, amended: ... has a key that is not empty once white space is       *)
(* trimmed, holds '=' and has nothing but white space after its first '='   *)
(* ('--k=' and '--k=<tab>' alike); the rest as stated.                      *)
C10_NothingButSpaceAfterEq ==
    /\ []C10_Outcome
    /\ [][/\ AtFlag =>
               (ReturnsErr(ErrMissingFlagValue) <=>
                   (/\ hasEq(arg)
                    /\ TrimSpace(RawKey(arg)) # << >>
                    /\ TrimSpace(RawValue(arg)) = << >>))
          /\ C10_OnlyAtFlags
          /\ C10_Bracketed]_vars

C10_Witness ==
    /\ Done
    /\ input = Str("a b --k= c")
    /\ Err = ErrMissingFlagValue
    /\ Node.Name = Str("a")

-----------------------------------------------------------------------------
(* C11: for every input Parse returns, with a node and no error or with one *)
(* of the three errors; it never aborts on an access past the end of the    *)
(* tokens, a list opened with '[' that no later token closes ('p --k=[a b', *)
(* 'p --k=[') included.                                                     *)
C11_ParseAlwaysReturns ==
    /\ pc # "panic"
    /\ Done => Err \in {ErrNil, ErrEmptyInput, ErrMisplacedFlags,
                        ErrMissingFlagValue}

-----------------------------------------------------------------------------
\* The step calls parseArgs from parseArgs.
Calls == stack # << >> /\ Len(stack') = Len(stack) + 1

\* A recursive call is given fewer tokens than its caller has.
C12_CallStep ==
    Calls =>
        /\ Len(Head(stack').args) < Len(top.args)
        /\ Head(stack').args = From(top.args, top.i)
        /\ Tail(stack') = <<[top EXCEPT !.line = stack'[2].line]>> \o Tail(stack)

\* Within an activation the cursor only moves forward.
C12_LoopStep ==
    (stack # << >> /\ Len(stack') = Len(stack) /\ pc' = pc) =>
        /\ Head(stack').i > top.i
        /\ Head(stack').i <= Len(top.args)

\* The depth of the recursion and the nodes returned against the tokens.
C12_Bounded ==
    /\ Len(stack) <= Len(Tokens)
    /\ \A n \in DOMAIN stack :
          /\ stack[n].i <= Len(stack[n].args)
          /\ Len(stack[n].args) <= Len(Tokens) - (Len(stack) - n)
    /\ Done => Len(Chain(Node)) <= Len(Tokens)

Ended == pc \in {"done", "panic"}

\* The frames that await the return of the call they made.
Waiting == Cardinality({n \in DOMAIN stack : stack[n].line # 56})

\* What is left to do: it is a natural number and every step lowers it.
Variant ==
    IF pc = "Parse" THEN 4 * Len(Tokens) + 2
    ELSE IF Ended THEN 0
    ELSE Waiting +
         (IF AtLoop
          THEN 4 * (Len(top.args) - top.i)
                 + (IF top.withCommand THEN 2 ELSE 0) + 1
          ELSE 0)

(* C12: every recursive call of parseArgs is given a slice strictly        *)
(* shorter than its caller's, within an activation the cursor only moves    *)
(* forward, so every run of Parse ends (each step lowers a natural         *)
(* number), and the chain of nodes it returns is never longer than the      *)
(* number of tokens of the input.                                          *)
C12_ParseTerminates ==
    /\ [](C12_Bounded /\ Variant >= 0)
    /\ [][C12_CallStep /\ C12_LoopStep /\ Variant' < Variant]_vars

\* Three nodes of four tokens, two recursive calls.
C12_Witness ==
    /\ Done
    /\ input = Str("a b c d")
    /\ Len(Chain(Node)) = 3
    /\ Node.Sub[1].Sub[1].Text = Str("d")

-----------------------------------------------------------------------------
(* C13: every node Parse returns, the top node, every node below it through *)
(* Sub, and the node returned with an error too, has a Pairs map that is    *)
(* not nil.                                                                 *)
C13_PairsNeverNil ==
    Done => \A d \in DOMAIN Chain(Node) : ~Chain(Node)[d].PairsNil

-----------------------------------------------------------------------------
\* Every key of the node has a value or more, and no key is empty.
KeysHaveValues(node) ==
    \A k \in DOMAIN node.Pairs : k # << >> /\ Len(node.Pairs[k]) >= 1

\* The nodes being built, the nodes handed back by a call, the nodes returned.
NodesInFlight ==
    {stack[n].argd : n \in DOMAIN stack}
        \cup UNION {SeqToSet(Chain(ret[n].node)) : n \in DOMAIN ret}
        \cup UNION {SeqToSet(Chain(result[n].node)) : n \in DOMAIN result}

(* C14: in every node of every tree Parse returns, with or without an      *)
(* error, and in every node while it is built, each key of Pairs maps to a  *)
(* sequence of at least one string and no key is the empty string.          *)
C14_KeysHaveValues == \A node \in NodesInFlight : KeysHaveValues(node)

\* Keys on two nodes of a returned tree, a list among the values.
C14_Witness ==
    /\ Succeeded
    /\ input = Str("p -h --=v q -x r")
    /\ DOMAIN Node.Pairs = {Str("h")}
    /\ DOMAIN Node.Sub[1].Pairs = {Str("x")}
    /\ KeysHaveValues(Node) /\ KeysHaveValues(Node.Sub[1])

-----------------------------------------------------------------------------
\* One bare name, then flag tokens and ignorable tokens only.
NameThenFlags(ts) ==
    /\ IsBare(ts[1])
    /\ \A n \in 2..Len(ts) : isFlag(ts[n]) \/ isIgnored(ts[n])

\* Sub is set in the d-th node exactly when a bare word follows the node's
\* Name and is not the last token.
SubWhereBranched(ts, nodes) ==
    \A d \in DOMAIN nodes :
        nodes[d].Sub # << >> <=>
            /\ Cardinality(BareAt(ts)) >= d + 1
            /\ NthBare(ts, d + 1) < Len(ts) - 1

(* C15, as stated: for an input of one bare name followed by flag tokens   *)
(* and ignorable tokens only, Parse succeeds with a nil Sub and an empty    *)
(* Text and Pairs holds every flag; in any returned tree Sub is non-nil     *)
(* exactly in the nodes where a bare token after the Name was followed by   *)
(* at least one more token of the slice.                                    *)
C15_NameAndFlagsSucceed ==
    /\ (Done /\ NameThenFlags(Tokens)) =>
          /\ Err = ErrNil
          /\ Node.Sub = << >> /\ Node.Text = << >>
          /\ \A n \in DOMAIN Tokens :
                isFlag(Tokens[n]) => FlagKey(Tokens[n]) \in DOMAIN Node.Pairs
    /\ Succeeded => SubWhereBranched(Tokens, Chain(Node))

(* C15, amended: for such an input what Parse returns has the name as its  *)
(* Name, a nil Sub and an empty Text; the error is MissingFlagValue or      *)
(* none, and when there is none Pairs holds exactly the flag tokens that    *)
(* the loop reaches and that have a key.  In any tree returned without an   *)
(* error Sub is non-nil exactly in the nodes where a bare token after the   *)
(* Name was followed by at least one more token of the slice.               *)
C15_NameAndFlagsGiveALeaf ==
    /\ (Done /\ NameThenFlags(Tokens)) =>
          /\ Err \in {ErrNil, ErrMissingFlagValue}
          /\ Node.Name = Tokens[1]
          /\ Node.Sub = << >> /\ Node.Text = << >>
          /\ Err = ErrNil =>
                DOMAIN Node.Pairs =
                    {FlagKey(At(Tokens, n)) : n \in FlagsAt(Tokens)}
                        \ {<< >>}
    /\ Succeeded => SubWhereBranched(Tokens, Chain(Node))

\* The second command line of the test.
C15_Witness ==
    /\ Succeeded
    /\ input = Str("rocket  --name=wallet -rack=ball -h")
    /\ NameThenFlags(Tokens)
    /\ Node.Sub = << >> /\ Node.Text = << >>
    /\ DOMAIN Node.Pairs = {Str("name"), Str("rack"), Str("h")}

-----------------------------------------------------------------------------
\* Flag tokens and ignorable tokens, no bare word.
OnlyFlags(ts) == \A n \in DOMAIN ts : isFlag(ts[n]) \/ isIgnored(ts[n])

(* C16, as stated: an input, not the empty string, that holds flag tokens  *)
(* and ignorable tokens only is not an error: Parse succeeds with an empty  *)
(* Name, a nil Sub, an empty Text and all its flags in Pairs.               *)
C16_FlagsAloneSucceed ==
    (Done /\ Len(input) # 0 /\ OnlyFlags(Tokens)) =>
        /\ Err = ErrNil
        /\ Node.Name = << >> /\ Node.Sub = << >> /\ Node.Text = << >>
        /\ \A n \in DOMAIN Tokens :
              isFlag(Tokens[n]) => FlagKey(Tokens[n]) \in DOMAIN Node.Pairs

(* C16, amended: for such an input the missing name is not an error: what  *)
(* Parse returns has an empty Name, a nil Sub and an empty Text, the error  *)
(* is MissingFlagValue or none, never MisplacedFlags, and when there is     *)
(* none Pairs holds exactly the flag tokens that the loop reaches and that  *)
(* have a key.                                                              *)
C16_FlagsAloneAreNotMisplaced ==
    (Done /\ Len(input) # 0 /\ OnlyFlags(Tokens)) =>
        /\ Err \in {ErrNil, ErrMissingFlagValue}
        /\ Node.Name = << >> /\ Node.Sub = << >> /\ Node.Text = << >>
        /\ ~Node.PairsNil
        /\ Err = ErrNil =>
              DOMAIN Node.Pairs =
                  {FlagKey(At(Tokens, n)) : n \in FlagsAt(Tokens)} \ {<< >>}

C16_Witness ==
    /\ Succeeded
    /\ input = Str("--x=1 -h")
    /\ OnlyFlags(Tokens)
    /\ Node.Name = << >> /\ Node.Sub = << >> /\ Node.Text = << >>
    /\ Node.Pairs = Put(Put(NoPairs, Str("x"), <<Str("1")>>),
                        Str("h"), <<Str("true")>>)

-----------------------------------------------------------------------------
\* The step at a bare word met after the Name: the level's node is returned
\* with the word as Text, or parseArgs is called on the slice from the word
\* on; the Pairs of the level are left as they are and no error is returned.
C17_BareStep ==
    AtBranch =>
        /\ pc' # "panic"
        /\ \/ /\ Returns
              /\ Out'.err = ErrNil
              /\ Out'.node = [top.argd EXCEPT !.Text = arg]
           \/ /\ Calls
              /\ Head(stack').args = From(top.args, top.i)
              /\ Head(stack').argd.Name = << >>
              /\ stack'[2].argd = top.argd

\* The node a call hands back is named by the word the call was made at.
C17_ChildNamed ==
    SubReturned => ret[1].node.Name = At(top.args, top.i)

\* The third command line of the test: 'danger' after '-j'.
C17_Example ==
    (Done /\ input = Str("runket -w=323 -j danger ricker --name=[ bog willow crack ] -rack=ball -h renditions recka")) =>
        /\ Err = ErrNil
        /\ Node.Pairs[Str("j")] = <<Str("true")>>
        /\ Node.Sub[1].Name = Str("danger")

(* C17: once a level has its Name, every later bare token that the loop of *)
(* the level meets ends the level, as its Text or as the Name of its Sub:   *)
(* the token is not made the value of the flag before it (after '-j         *)
(* danger' Pairs["j"] is <<"true">> and 'danger' names the child) and the   *)
(* step at the token returns no error.                                      *)
C17_BareWordEndsLevel ==
    /\ [](C17_ChildNamed /\ C17_Example)
    /\ [][C17_BareStep /\ (SubReturned => Returns)]_vars

C17_Witness ==
    /\ Succeeded
    /\ input = Str("runket -w=323 -j danger ricker --name=[ bog willow crack ] -rack=ball -h renditions recka")
    /\ Node.Pairs[Str("j")] = <<Str("true")>>
    /\ Node.Sub[1].Name = Str("danger")
    /\ Node.Sub[1].Sub[1].Name = Str("ricker")

-----------------------------------------------------------------------------
\* A flag token at which the parse of ts ends: its list is not closed, or it
\* has a key and no value.
EndsParse(ts, n) ==
    \/ listPanics(ts, n)
    \/ hasEq(At(ts, n)) /\ key(At(ts, n)) # << >> /\ values(ts, n) = << >>

\* The positions of ts, from n on, that the loop reaches, up to the first
\* flag token at which the parse ends.
RECURSIVE Walk(_, _)
Walk(ts, n) ==
    IF n >= Len(ts) THEN << >>
    ELSE IF isIgnored(At(ts, n)) THEN Walk(ts, n + 1)
    ELSE IF isFlag(At(ts, n))
    THEN IF EndsParse(ts, n) THEN <<n>>
         ELSE <<n>> \o Walk(ts, cursor(ts, n) + 1)
    ELSE <<n>> \o Walk(ts, n + 1)

Walked(ts) == SeqToSet(Walk(ts, 0))

WalkedBares(ts) == {n \in Walked(ts) : IsBare(At(ts, n))}

Min(S) == CHOOSE n \in S : \A m \in S : n <= m

\* The flags with a key that the loop reaches before position b.
KeyedBefore(ts, b) ==
    {n \in Walked(ts) :
        n < b /\ isFlag(At(ts, n)) /\ FlagKey(At(ts, n)) # << >>}

\* The first bare word comes after a flag that was stored.
MisplacedAt(ts) ==
    /\ WalkedBares(ts) # {}
    /\ KeyedBefore(ts, Min(WalkedBares(ts))) # {}

\* The failing token of a parse that fails.
FailsAt(ts) ==
    IF MisplacedAt(ts) THEN Min(WalkedBares(ts)) ELSE Last(Walk(ts, 0))

\* The tokens of the top level before the failing one: those reached
\* before the second bare word.
TopBefore(ts) ==
    {n \in Walked(ts) :
        /\ n < FailsAt(ts)
        /\ Cardinality({b \in WalkedBares(ts) : b <= n}) <= 1}

\* The two errors of parseArgs.
ParseErrors == {ErrMisplacedFlags, ErrMissingFlagValue}

\* What is returned with the error, told from the tokens before the failing
\* one only: the top level's Name and the keys of its flags.
C18_Outcome ==
    (Done /\ Err \in ParseErrors) =>
        LET ts == Tokens
            names == {n \in TopBefore(ts) : IsBare(At(ts, n))}
            flags == {n \in TopBefore(ts) : isFlag(At(ts, n))}
        IN  /\ Node.Sub = << >> /\ Node.Text = << >>
            /\ Err = ErrMisplacedFlags <=> MisplacedAt(ts)
            /\ Err = ErrMissingFlagValue =>
                  /\ isFlag(At(ts, FailsAt(ts)))
                  /\ value(At(ts, FailsAt(ts))) = << >>
            /\ Node.Name = IF names = {} THEN << >> ELSE At(ts, Min(names))
            /\ DOMAIN Node.Pairs =
                  {FlagKey(At(ts, n)) : n \in flags} \ {<< >>}

\* No node has a Sub or a Text while its level is parsed.
C18_NotYetSet ==
    \A n \in DOMAIN stack :
        stack[n].argd.Sub = << >> /\ stack[n].argd.Text = << >>

\* The step at the failing token returns the level's node as it stands, and
\* every level above returns its own as it stands, with the same error.
C18_Step ==
    /\ (AtLoop /\ Returns /\ Out'.err # ErrNil) =>
          /\ Out'.err \in ParseErrors
          /\ Out'.node = top.argd
    /\ (SubReturned /\ ret[1].err # ErrNil) =>
          /\ Returns
          /\ Out'.err = ret[1].err
          /\ Out'.node = top.argd

(* C18: when parsing fails with MisplacedFlags or MissingFlagValue, at the *)
(* top level or in a nested call, no token after the failing one is looked  *)
(* at: every level returns at once, and Parse returns with the error the    *)
(* top-level node with the Name and the Pairs it had recorded from the      *)
(* tokens before the failing one, a nil Sub and an empty Text.              *)
C18_ErrorReturnsTopNode ==
    /\ [](C18_Outcome /\ C18_NotYetSet)
    /\ [][C18_Step]_vars

\* The failure is two levels down; only what 'a' recorded comes back.
C18_Witness ==
    /\ Done
    /\ input = Str("a -x b -y --k= c")
    /\ Err = ErrMissingFlagValue
    /\ FailsAt(Tokens) = 4
    /\ Node.Name = Str("a")
    /\ DOMAIN Node.Pairs = {Str("x")}
    /\ Node.Sub = << >> /\ Node.Text = << >>

-----------------------------------------------------------------------------
\* The empty token, a lone '-', a lone '--'.
Ignorable(t) == t = Str("") \/ t = Str("-") \/ t = Str("--")

\* The step at such a token moves the cursor past it and does nothing else.
C19_Step ==
    (InLoop /\ Ignorable(arg)) =>
        /\ stack' = <<[top EXCEPT !.i = top.i + 1]>> \o Tail(stack)
        /\ UNCHANGED <<pc, ret, result>>

\* No node is named by a dash token, and no key is one.
C19_NoDashName ==
    \A node \in NodesInFlight :
        /\ node.Name \notin {Str("-"), Str("--")}
        /\ \A k \in DOMAIN node.Pairs : ~Ignorable(k)

(* C19: a token that is the empty string, a lone '-' or a lone '--' and    *)
(* that the loop meets is skipped, at any level and position: it names no   *)
(* node, adds no key to Pairs and brings no error.                          *)
C19_IgnorableIsSkipped == []C19_NoDashName /\ [][C19_Step]_vars

\* '--' at the top level, '-' one level down.
C19_Witness ==
    /\ Succeeded
    /\ input = Str("a -- b - c")
    /\ Node.Name = Str("a") /\ DOMAIN Node.Pairs = {}
    /\ Node.Sub[1].Name = Str("b") /\ DOMAIN Node.Sub[1].Pairs = {}
    /\ Node.Sub[1].Text = Str("c")

-----------------------------------------------------------------------------
\* The step at a bare word met after the Name: a leaf when the word is the
\* last token of the slice, a call when any token follows it.
C20_Step ==
    AtBranch =>
        /\ top.i = Len(top.args) - 1 <=>
              /\ Returns
              /\ Out'.err = ErrNil
              /\ Out'.node = [top.argd EXCEPT !.Text = arg]
        /\ top.i < Len(top.args) - 1 <=>
              /\ Calls
              /\ Head(stack') = NewFrame(From(top.args, top.i))

\* 'cmd sub' and 'cmd sub ', and any two bare words at the head of the input.
C20_Examples ==
    /\ (Done /\ input = Str("cmd sub")) =>
          /\ Err = ErrNil
          /\ Node.Name = Str("cmd")
          /\ Node.Text = Str("sub") /\ Node.Sub = << >>
    /\ (Done /\ input = Str("cmd sub ")) =>
          /\ Err = ErrNil
          /\ Node.Name = Str("cmd")
          /\ Node.Sub # << >>
          /\ Node.Sub[1].Name = Str("sub")
          /\ Node.Sub[1].Sub = << >> /\ Node.Sub[1].Text = << >>
    /\ (Succeeded /\ Len(Tokens) >= 2
          /\ IsBare(Tokens[1]) /\ IsBare(Tokens[2])) =>
          IF Len(Tokens) = 2
          THEN Node.Sub = << >> /\ Node.Text = Tokens[2]
          ELSE Node.Sub # << >> /\ Node.Sub[1].Name = Tokens[2]

(* C20: the bare token met after the Name is a leaf if and only if it is   *)
(* the last raw token of the slice of its level; if any token follows it,   *)
(* an ignorable one such as the empty token of a trailing space too, the    *)
(* parser recurses and makes a child: 'cmd sub' gives Text 'sub' and a nil  *)
(* Sub, 'cmd sub ' gives a Sub named 'sub'.                                 *)
C20_LeafIffLastToken == []C20_Examples /\ [][C20_Step]_vars

C20_Witness ==
    /\ Succeeded
    /\ input = Str("cmd sub ")
    /\ Tokens = <<Str("cmd"), Str("sub"), Str("")>>
    /\ Node.Sub[1].Name = Str("sub")
    /\ Node.Text = Str("sub ")

-----------------------------------------------------------------------------
\* A flag token with '=', a key and a value that opens no list.
PlainPair(t) ==
    /\ isFlag(t) /\ hasEq(t)
    /\ RawKey(t) # << >> /\ RawValue(t) # << >>
    /\ Head(RawValue(t)) # "["

\* The three spellings of the claim.
C21_Examples ==
    \A line \in {Str("p -k=a=b"), Str("p --k=a=b"), Str("p ---k=a=b q")} :
        (Done /\ input = line) =>
            /\ Err = ErrNil
            /\ DOMAIN Node.Pairs = {Str("k")}
            /\ Node.Pairs[Str("k")] = <<Str("a=b")>>

(* C21, as stated: for a flag token with '=', the key is the text between  *)
(* the leading dashes, all of them stripped, and the first '=', the value   *)
(* is everything after the first '=', later '=' included: '-k=a=b',         *)
(* '--k=a=b' and '---k=a=b' give Pairs["k"] = <<"a=b">>.                    *)
C21_KeyAndValueAsWritten ==
    /\ []C21_Examples
    /\ [][(AtFlag /\ PlainPair(arg)) =>
             /\ SameLevel
             /\ Head(stack').argd.Pairs =
                   Put(top.argd.Pairs, RawKey(arg), <<RawValue(arg)>>)]_vars

\* The same once white space is trimmed off the key and off the value.
TrimmedPair(t) ==
    /\ isFlag(t) /\ hasEq(t)
    /\ TrimSpace(RawKey(t)) # << >> /\ TrimSpace(RawValue(t)) # << >>
    /\ Head(TrimSpace(RawValue(t))) # "["

(* C21, amended: the key and the value are those two texts with the white *)
(* space at their ends trimmed off ('--k=<tab>a<tab>' gives                 *)
(* Pairs["k"] = <<"a">>); the rest as stated.                               *)
C21_KeyAndValueTrimmed ==
    /\ []C21_Examples
    /\ [][(AtFlag /\ TrimmedPair(arg)) =>
             /\ SameLevel
             /\ Head(stack').i = top.i + 1
             /\ Head(stack').argd.Pairs =
                   Put(top.argd.Pairs, TrimSpace(RawKey(arg)),
                       <<TrimSpace(RawValue(arg))>>)]_vars

C21_Witness ==
    /\ Succeeded
    /\ input = Str("p ---k=a=b q")
    /\ Node.Pairs[Str("k")] = <<Str("a=b")>>
    /\ Node.Text = Str("q")

-----------------------------------------------------------------------------
\* The value of a flag token as the parser sees it, white space trimmed.
SeenValue(t) == TrimSpace(RawValue(t))

\* A flag token with a key whose value starts with '[' and ends with ']'.
InlineList(t) ==
    /\ isFlag(t) /\ hasEq(t)
    /\ TrimSpace(RawKey(t)) # << >>
    /\ Len(SeenValue(t)) >= 2
    /\ Head(SeenValue(t)) = "[" /\ Last(SeenValue(t)) = "]"

\* What stands between the first and the last character.
Interior(v) == SubSeq(v, 2, Len(v) - 1)

\* The step stores vs under the key and moves to the next token.
C22_Stored(vs) ==
    /\ SameLevel
    /\ Head(stack').i = top.i + 1
    /\ Head(stack').argd.Pairs = Put(top.argd.Pairs, TrimSpace(RawKey(arg)), vs)

(* C22, as stated: for a flag whose value is one token that starts with    *)
(* '[' and ends with ']', Pairs[k] is what stands between the two brackets  *)
(* split at ',' in order; no following token is consumed, the cursor moves  *)
(* on by one token.                                                         *)
C22_InlineListIsItsInterior ==
    [][(AtFlag /\ InlineList(arg)) =>
          C22_Stored(Split(Interior(SeenValue(arg)), <<",">>))]_vars

\* v without the '[' it starts with and the ']' it ends with, all of them.
Unbracketed(v) == TrimRight(TrimLeft(v, {"["}), {"]"})

\* '--k=[a,b,c]'.
C22_Example ==
    (Done /\ input = Str("p --k=[a,b,c]")) =>
        /\ Err = ErrNil
        /\ Node.Pairs[Str("k")] = <<Str("a"), Str("b"), Str("c")>>
        /\ Node.Sub = << >> /\ Node.Text = << >>

(* C22, amended: Pairs[k] is the value without every '[' it starts with    *)
(* and every ']' it ends with, split at ',' in order ('--k=[[a,b]]' gives   *)
(* <<"a", "b">>); the rest as stated.                                       *)
C22_InlineListIsSplitAtCommas ==
    /\ []C22_Example
    /\ [][(AtFlag /\ InlineList(arg)) =>
             C22_Stored(Split(Unbracketed(SeenValue(arg)), <<",">>))]_vars

\* The tokens after the list are parsed as they would be after any flag.
C22_Witness ==
    /\ Succeeded
    /\ input = Str("p --k=[a,b,c] q -h")
    /\ Node.Pairs[Str("k")] = <<Str("a"), Str("b"), Str("c")>>
    /\ Node.Sub[1].Name = Str("q")
    /\ Node.Sub[1].Pairs[Str("h")] = <<Str("true")>>

-----------------------------------------------------------------------------
\* The elements es, each cut at its commas, in order.
RECURSIVE AtCommas(_)
AtCommas(es) ==
    IF es = << >> THEN << >>
    ELSE Split(Head(es), <<",">>) \o AtCommas(Tail(es))

\* '--k=[a,b c]'.
C23_Example ==
    (Done /\ input = Str("p --k=[a,b c]")) =>
        /\ Err = ErrNil
        /\ Node.Pairs[Str("k")] = <<Str("a"), Str("b"), Str("c")>>

(* C23: a bracketed list that spans several tokens and mixes commas and    *)
(* spaces is stored as one value per element, the elements cut at the       *)
(* spaces and at the commas: '--k=[a,b c]' gives <<"a", "b", "c">>.         *)
C23_MixedListIsNormalized ==
    /\ []C23_Example
    /\ [][(/\ AtFlag
           /\ SpreadList(top.args, top.i)
           /\ CleanElements(Elements(top.args, top.i))) =>
              /\ SameLevel
              /\ Head(stack').argd.Pairs =
                    Put(top.argd.Pairs, key(arg),
                        AtCommas(Elements(top.args, top.i)))]_vars

-----------------------------------------------------------------------------
\* The loop is at a token that goes through the flag code and has no '='.
AtFlagWithoutEq == AtFlag /\ Index(arg, <<"=">>) = -1

\* No call is ever made from line 181, and no token without '=' comes to
\* the flag code with nothing behind its dashes.
C24_NoFallbackCall ==
    /\ \A n \in DOMAIN stack : stack[n].line \in {56, 86}
    /\ AtFlagWithoutEq => TrimLeft(arg, {"-"}) # << >>

\* The token is stored as a boolean flag and the loop goes on: the step
\* neither returns nor calls.
C24_Step ==
    AtFlagWithoutEq =>
        /\ SameLevel
        /\ Head(stack').i = top.i + 1
        /\ TrimLeft(arg, {"-"}) \in DOMAIN Head(stack').argd.Pairs

(* C24: the fallback branch of lines 172-189 (a flag-shaped token with an  *)
(* empty key and no '=', branching or setting Text from the flag's          *)
(* position) is executed on no input: every token that comes to the flag    *)
(* code without '=' has a non-empty opt and is stored as a boolean flag.    *)
C24_FallbackUnreachable == []C24_NoFallbackCall /\ [][C24_Step]_vars

\* Dashes alone, three or more, are bare words; '-x' is a boolean flag.
C24_Witness ==
    /\ Succeeded
    /\ input = Str("--- -x ----")
    /\ Node.Name = Str("---")
    /\ Node.Pairs[Str("x")] = <<Str("true")>>
    /\ Node.Text = Str("----")

-----------------------------------------------------------------------------
\* A Name once set is kept by every later step of the level, the step that
\* returns the level's node included; a Name is set from the empty one only.
C25_SetOnce ==
    /\ (stack # << >> /\ Len(stack') = Len(stack) /\ pc' = pc) =>
          \/ Head(stack').argd.Name = top.argd.Name
          \/ top.argd.Name = << >> /\ ~top.withCommand
                /\ Head(stack').argd.Name = arg
    /\ Returns => Out'.node.Name = top.argd.Name
    /\ Calls => stack'[2].argd.Name = top.argd.Name

\* The first bare token that the loop of a level meets in the slice ts.
FirstBare(ts) == Min(WalkedBares(ts))

\* The frame has gone past the first bare token of its slice.
PastFirstBare(f) ==
    /\ WalkedBares(f.args) # {}
    /\ FirstBare(f.args) < f.i

(* C25, as stated: within one level Name is assigned at most once, no      *)
(* token after the first bare one changes it, and Name is the first bare    *)
(* token that the level meets in its slice whenever it meets one.           *)
C25_NameIsFirstBare ==
    /\ [][C25_SetOnce]_vars
    /\ [](\A n \in DOMAIN stack :
             PastFirstBare(stack[n]) =>
                stack[n].argd.Name =
                    At(stack[n].args, FirstBare(stack[n].args)))
    /\ []((Done /\ WalkedBares(Tokens) # {}) =>
             Node.Name = At(Tokens, FirstBare(Tokens)))

(* C25, amended: the same, but for a first bare token that comes after a   *)
(* flag stored at the level: the level then fails with MisplacedFlags and   *)
(* its Name stays empty.                                                    *)
C25_NameIsFirstBareUnlessMisplaced ==
    /\ [][C25_SetOnce]_vars
    /\ [](\A n \in DOMAIN stack :
             /\ PastFirstBare(stack[n]) =>
                   stack[n].argd.Name =
                       At(stack[n].args, FirstBare(stack[n].args))
             /\ ~PastFirstBare(stack[n]) => stack[n].argd.Name = << >>)
    /\ [](Done =>
             Node.Name =
                IF WalkedBares(Tokens) # {} /\ ~MisplacedAt(Tokens)
                THEN At(Tokens, FirstBare(Tokens))
                ELSE << >>)

\* The flag before the name is stored nowhere, the name is taken.
C25_Witness ==
    /\ Succeeded
    /\ input = Str("--=v name --k=v")
    /\ Node.Name = Str("name")
    /\ DOMAIN Node.Pairs = {Str("k")}

-----------------------------------------------------------------------------
\* The flag tokens after position n that do not end with ']'.
FlagsAfter(ts, n) ==
    {f \in (n + 1)..(Len(ts) - 1) :
        isFlag(At(ts, f)) /\ Last(At(ts, f)) # "]"}

\* The list opened at n runs into a flag: a flag token follows with, before
\* it, no flag, no token ending with ']' and no empty token.
FlagStopsList(ts, n) ==
    /\ OpensList(At(ts, n))
    /\ FlagsAfter(ts, n) # {}
    /\ \A m \in (n + 1)..(Min(FlagsAfter(ts, n)) - 1) :
          /\ At(ts, m) # << >>
          /\ ~isFlag(At(ts, m))
          /\ Last(At(ts, m)) # "]"

\* What was collected when the flag is met: what is attached to the '['
\* and the tokens up to the flag.
Collected(ts, n) ==
    NonEmpty(Tail(RawValue(At(ts, n))))
        \o SubSeq(ts, n + 2, Min(FlagsAfter(ts, n)))

\* The list is stored as collected and the loop goes on at the flag.
C26_Step ==
    (/\ AtFlag
     /\ FlagStopsList(top.args, top.i)
     /\ Collected(top.args, top.i) # << >>
     /\ CleanElements(Collected(top.args, top.i))) =>
        /\ SameLevel
        /\ Head(stack').argd.Pairs =
              Put(top.argd.Pairs, key(arg), Collected(top.args, top.i))
        /\ Head(stack').i = Min(FlagsAfter(top.args, top.i))

\* 'p --k=[a b -x'.
C26_Example ==
    (Done /\ input = Str("p --k=[a b -x")) =>
        /\ Err = ErrNil
        /\ DOMAIN Node.Pairs = {Str("k"), Str("x")}
        /\ Node.Pairs[Str("k")] = <<Str("a"), Str("b")>>
        /\ Node.Pairs[Str("x")] = <<Str("true")>>
        /\ Node.Sub = << >>

-----------------------------------------------------------------------------
\* Run, lines 1163-1165: the Sub that Parse returned is kept; a Sub is made
\* of the Text only when Parse returned none and the Text names a command.
C27_RunStep ==
    (run = "1155" /\ run' = "1167") =>
        LET parsed == result[1].node
        IN  carg' = IF parsed.Sub = << >> /\ Has(commands, parsed.Text)
                    THEN [parsed EXCEPT !.Sub = <<New(parsed.Text)>>]
                    ELSE parsed

\* Command.Run, lines 1012-1021: the same of the node it is given.
C27_CmdStep ==
    (InRun /\ cmd'.pc = "Run" /\ cmd' # cmd) =>
        cmd'.arg = IF cmd.arg.Sub # << >>
                   THEN cmd.arg.Sub[1]
                   ELSE New(cmd.arg.Text)

(* C27: Run and Command.Run attach a synthetic Sub, named by the node's    *)
(* Text, only when the Text is the name of a registered command and the    *)
(* parser left Sub nil; neither ever replaces a Sub the parser produced.    *)
C27_ParsedSubIsKept == [][C27_RunStep /\ C27_CmdStep]_vars

-----------------------------------------------------------------------------
\* The loop is at a flag token with an equals sign and nothing for a key.
AtFlagWithoutKey == AtFlag /\ hasEq(arg) /\ key(arg) = << >>

\* The token is passed over: the loop goes on at the same level with the
\* node as it was, and a level that had no Name still has to find one.
C28_Step ==
    AtFlagWithoutKey =>
        /\ SameLevel
        /\ Head(stack').argd = top.argd
        /\ Head(stack').withCommand = top.withCommand
        /\ Head(stack').i > top.i

\* '--=v name --k=v': the word after the dropped flag is the Name.
C28_Example ==
    (Done /\ input = Str("--=v name --k=v")) =>
        /\ Err = ErrNil
        /\ Node.Name = Str("name")
        /\ Node.Pairs = Put(NoPairs, Str("k"), <<Str("v")>>)
        /\ Node.Sub = << >> /\ Node.Text = << >>

(* C28: a flag token with an '=' and an empty key ('--=v') is dropped      *)
(* silently: it raises no error and leaves Name, Pairs, Sub and Text of    *)
(* the node unchanged, so that a bare word after it is still captured as   *)
(* Name without MisplacedFlags.                                            *)
C28_KeylessFlagIsDropped == []C28_Example /\ [][C28_Step]_vars

-----------------------------------------------------------------------------
\* The flags of node d that are filed under key k.
Occurrences(ts, d, k) ==
    {f \in FlagsAt(ts) : Owner(ts, f) = d /\ FlagKey(At(ts, f)) = k}

Max(S) == CHOOSE n \in S : \A m \in S : m <= n

\* What the flag at position n has for a value sequence.
Occurrence(ts, n) ==
    IF hasEq(At(ts, n)) THEN values(ts, n) ELSE <<Str("true")>>

\* 'p -k --k=[a b] --k=c q --k=d': k of p is written three times, last as c.
C29_Example ==
    (Done /\ input = Str("p -k --k=[a b] --k=c q --k=d")) =>
        /\ Err = ErrNil
        /\ Node.Pairs = Put(NoPairs, Str("k"), <<Str("c")>>)
        /\ Node.Sub[1].Pairs = Put(NoPairs, Str("k"), <<Str("d")>>)

(* C29: when a flag key occurs more than once at one nesting level, the    *)
(* Pairs[key] of that level's node after a successful parse is the value   *)
(* sequence of the last occurrence alone: values are overwritten, never    *)
(* accumulated or merged, for key=value flags and boolean flags alike.     *)
C29_LastOccurrenceWins ==
    /\ C29_Example
    /\ Succeeded =>
          LET ts == Tokens
              nodes == Chain(Node)
          IN  \A d \in 1..Len(nodes) :
                 \A k \in DOMAIN nodes[d].Pairs :
                    nodes[d].Pairs[k] =
                        Occurrence(ts, Max(Occurrences(ts, d, k)))

\* A boolean flag written over a key=value flag of the same node.
C29_Witness ==
    /\ Succeeded
    /\ input = Str("p --k=v -k")
    /\ Cardinality(Occurrences(Tokens, 1, Str("k"))) = 2
    /\ Node.Pairs = Put(NoPairs, Str("k"), <<Str("true")>>)

-----------------------------------------------------------------------------
\* The goroutine of lines 1203-1209 has been started.
Started == cmd.pc # "none"

\* The command's Run has returned, or a signal has been delivered.
Event == ch.closed \/ ch.sent > 0

\* Run has not returned without one of the two, and not without cancel.
C30_NotBefore == (Started /\ run = "returned") => Event /\ cancelled

\* Run leaves the receive of line 1211 by returning, with the root context
\* cancelled, and in no other way.
C30_Step ==
    (Started /\ run = "1211" /\ run' # run) =>
        /\ Event
        /\ run' = "returned"
        /\ cancelled'

(* C30: once Run has started the selected command in its goroutine, it     *)
(* returns if and only if that command's Run has returned (the goroutine   *)
(* closes the channel) or an Interrupt, SIGQUIT or SIGTERM has been        *)
(* delivered: never before one of the two, always after either, and with   *)
(* the root context cancelled.                                             *)
C30_ReturnsOnCloseOrSignal == []C30_NotBefore /\ [][C30_Step]_vars

=============================================================================
